---- MODULE Spec2Model ----
(***************************************************************************)
(* Location Explorer (BreakingBadTourUI): the record normalizer            *)
(* (mapLocation), the client-side facet filter (visible) and the           *)
(* cancellable fetch effect with the handlers that drive it.               *)
(*                                                                         *)
(* JSON values are tagged records, so that a missing key ("undefined"), a  *)
(* null, a wrong-typed value ("other") and a well-typed value stay apart.  *)
(* Strings that the code parses (coordinates) are sequences of characters. *)
(***************************************************************************)
EXTENDS Integers, Sequences, FiniteSets, TLC

VARIABLES
    query,          \* useState("")      search text
    page,           \* useState(0)       requested page index
    size,           \* useState(20)      requested page size
    loading,        \* useState(false)
    error,          \* useState(null)    "" stands for null
    pageData,       \* useState({content: [], totalPages: 0, page: 0, size: 20, totalElements: 0})
    seriesFilter,   \* useState("")
    accessFilter,   \* useState("")
    fetches,        \* the runs of the fetch effect whose async function has not ended
    latest,         \* history: "live", or how the most recently started run ended
    pageSrc,        \* history: the run that committed pageData ("none": no run yet;
                    \*   "latest": the most recently started run; "older": a run that
                    \*   was the latest when it committed; "stale": a superseded run)
    lastEvent,      \* history: the last step taken and the run it started or settled
    wire,           \* history: the query string of the last request sent, and what
                    \*   the last step received (the status of a response, the body
                    \*   passed to the normalization)
    raw,            \* input of the normalizer (SpecNorm)
    normOut,        \* outcome of the normalizer (SpecNorm)
    trail           \* history (SpecPaging): "steady" until the page size is raised
                    \*   at a page index > 0 or a run that is not cancelled fails,
                    \*   "strayed" from then on; "untracked" where the history is
                    \*   not followed

vars == <<query, page, size, loading, error, pageData, seriesFilter, accessFilter,
          fetches, latest, pageSrc, lastEvent, wire, raw, normOut, trail>>

uiVars == <<query, page, size, loading, error, pageData, seriesFilter, accessFilter,
            fetches, latest, pageSrc, lastEvent, wire, trail>>

-----------------------------------------------------------------------------
(* Bounds *)

MaxStrLen == 2      \* longest coordinate string drawn
MaxCoords == 2      \* longest coordinates array drawn
MaxRecords == 5     \* longest page content drawn for the filter
MaxInFlight == 2    \* runs of the fetch effect awaiting their response at once
MaxPage == 2        \* highest page index requested when the response body is drawn

-----------------------------------------------------------------------------
(* JSON values *)

\* Text-like field: t is "undefined" (key absent), "null", "string" or "other"
\* (a non-nullish value of another type).
JUndef == [t |-> "undefined", s |-> ""]
JNull == [t |-> "null", s |-> ""]
JOther == [t |-> "other", s |-> ""]
JStr(x) == [t |-> "string", s |-> x]

\* Numeric body field: t is "undefined", "null", "number" or "other".
NUndef == [t |-> "undefined", n |-> 0]
NNull == [t |-> "null", n |-> 0]
NOther == [t |-> "other", n |-> 0]
Num(k) == [t |-> "number", n |-> k]

\* Coordinate element: t is "undefined" (index past the end), "null", "number",
\* "nonfinite" (a number literal that overflows to Infinity), "nan", "string" or
\* "other" (boolean, object, array).
CUndef == [t |-> "undefined", n |-> 0, s |-> <<>>]
CNull == [t |-> "null", n |-> 0, s |-> <<>>]
CNum(k) == [t |-> "number", n |-> k, s |-> <<>>]
CNonFinite == [t |-> "nonfinite", n |-> 0, s |-> <<>>]
CNaN == [t |-> "nan", n |-> 0, s |-> <<>>]
CStr(cs) == [t |-> "string", n |-> 0, s |-> cs]
COther == [t |-> "other", n |-> 0, s |-> <<>>]

\* Array-or-not field: t is "undefined", "other" (present, not an array) or "array".
AUndef == [t |-> "undefined", elems |-> <<>>]
ANotArray == [t |-> "other", elems |-> <<>>]
Arr(es) == [t |-> "array", elems |-> es]

\* geolocation: t is "undefined", "null", "prim" or "object" (with its coordinates key).
GUndef == [t |-> "undefined", coordinates |-> AUndef]
GNull == [t |-> "null", coordinates |-> AUndef]
GPrim == [t |-> "prim", coordinates |-> AUndef]
GObj(c) == [t |-> "object", coordinates |-> c]

\* scenes element: t is "null", "prim" or "object" (with its episodes key).
SNull == [t |-> "null", episodes |-> AUndef]
SPrim == [t |-> "prim", episodes |-> AUndef]
SObj(e) == [t |-> "object", episodes |-> e]

\* episodes element: a number or a string.
ENum(k) == [t |-> "number", n |-> k, s |-> ""]
EStr(x) == [t |-> "string", n |-> 0, s |-> x]

\* An entry of the record sequence: t is "null", "prim" (number, string, boolean:
\* every property read gives undefined) or "object".
RawObj(i, nm, ser, acc, geo, sc) ==
    [t |-> "object", _id |-> i, id |-> JUndef, name |-> nm, series |-> ser,
     address |-> JUndef, city |-> JUndef, state |-> JUndef, notes |-> JUndef,
     scenes |-> sc, access |-> acc, geolocation |-> geo,
     latitude |-> CUndef, longitude |-> CUndef, lat |-> CUndef, lng |-> CUndef]
\* A record that carries coordinates in flat fields as well
WithFlat(r, la, lo, la2, lo2) ==
    [r EXCEPT !.latitude = la, !.longitude = lo, !.lat = la2, !.lng = lo2]
RawEmpty == RawObj(JUndef, JUndef, AUndef, JUndef, GUndef, AUndef)
RawNull == [RawEmpty EXCEPT !.t = "null"]
RawPrim == [RawEmpty EXCEPT !.t = "prim"]

-----------------------------------------------------------------------------
(* toNumber *)

Digits == {"0", "1", "2", "3", "4", "5", "6", "7", "8", "9"}

DigitVal(c) ==
    CASE c = "0" -> 0 [] c = "1" -> 1 [] c = "2" -> 2 [] c = "3" -> 3 [] c = "4" -> 4
      [] c = "5" -> 5 [] c = "6" -> 6 [] c = "7" -> 7 [] c = "8" -> 8 [] c = "9" -> 9

\* Length of the longest prefix of cs made of digits.
RECURSIVE DigitPrefixLen(_)
DigitPrefixLen(cs) ==
    IF cs = <<>> \/ Head(cs) \notin Digits THEN 0 ELSE 1 + DigitPrefixLen(Tail(cs))

RECURSIVE DigitsValue(_, _)
DigitsValue(cs, acc) ==
    IF cs = <<>> THEN acc ELSE DigitsValue(Tail(cs), 10 * acc + DigitVal(Head(cs)))

\* parseFloat on a string of digits, signs and other characters (no leading
\* white space, no fraction or exponent in the strings drawn): an optional
\* sign, then the longest run of digits; NaN when there is no digit there.
parseFloat(cs) ==
    LET signed == cs # <<>> /\ Head(cs) \in {"-", "+"}
        body == IF signed THEN Tail(cs) ELSE cs
        k == DigitPrefixLen(body)
        mag == DigitsValue(SubSeq(body, 1, k), 0)
    IN  IF k = 0 THEN CNaN
        ELSE CNum(IF signed /\ Head(cs) = "-" THEN 0 - mag ELSE mag)

NumberIsFinite(v) == v.t = "number"

toNumber(v) ==
    LET n == IF v.t = "string" THEN parseFloat(v.s) ELSE v
    IN  IF NumberIsFinite(n) THEN CNum(n.n) ELSE CNull

-----------------------------------------------------------------------------
(* episodesFromScenes, mapLocation *)

StringOf(e) == IF e.t = "number" THEN ToString(e.n) ELSE e.s

\* Set insertion order: xs without the later duplicates.
RECURSIVE Dedup(_, _)
Dedup(xs, seen) ==
    IF xs = <<>> THEN <<>>
    ELSE IF Head(xs) \in seen THEN Dedup(Tail(xs), seen)
         ELSE <<Head(xs)>> \o Dedup(Tail(xs), seen \cup {Head(xs)})

RECURSIVE FlattenEpisodes(_)
FlattenEpisodes(scs) ==
    IF scs = <<>> THEN <<>>
    ELSE LET s == Head(scs)
             eps == IF s.episodes.t = "array" THEN s.episodes.elems ELSE <<>>
         IN  [i \in 1..Len(eps) |-> StringOf(eps[i])] \o FlattenEpisodes(Tail(scs))

\* s.episodes on a null scene is a TypeError.
ScenesThrow(scenes) ==
    scenes.t = "array" /\ \E i \in 1..Len(scenes.elems) : scenes.elems[i].t = "null"

episodesFromScenes(scenes) ==
    Dedup(FlattenEpisodes(IF scenes.t = "array" THEN scenes.elems ELSE <<>>), {})

\* a ?? b
Coalesce(a, b) == IF a.t \in {"undefined", "null"} THEN b ELSE a

GeneratedId == [t |-> "generated", s |-> ""]   \* Math.random().toString(36).slice(2)

NoRecord ==
    [id |-> JUndef, name |-> JUndef, series |-> <<>>, address |-> JUndef, city |-> JUndef,
     state |-> JUndef, notes |-> JUndef, scenes |-> <<>>, access |-> JUndef,
     lat |-> CNull, lng |-> CNull, episodes |-> <<>>]

Returned(r) == [state |-> "returned", rec |-> r]
Threw == [state |-> "threw", rec |-> NoRecord]
Pending == [state |-> "pending", rec |-> NoRecord]

\* The coordinates read by raw?.geolocation?.coordinates, [null, null] when
\* that is not an array; an index past the end reads undefined.
CoordsOf(r) ==
    IF r.t = "object" /\ r.geolocation.t = "object" /\ r.geolocation.coordinates.t = "array"
    THEN r.geolocation.coordinates.elems
    ELSE <<CNull, CNull>>

At(cs, i) == IF i <= Len(cs) THEN cs[i] ELSE CUndef

\* Faulty variant of mapLocation: the coordinates are read as [lat, lng].
mapLocation_LatFirst(r) ==
    LET coords == CoordsOf(r)
        lat == toNumber(At(coords, 1))
        lng == toNumber(At(coords, 2))
        o == IF r.t = "object" THEN r ELSE RawEmpty
    IN  IF r.t = "null" THEN Threw
        ELSE IF ScenesThrow(o.scenes) THEN Threw
        ELSE Returned(
            [id |-> Coalesce(o._id, Coalesce(o.id, GeneratedId)),
             name |-> Coalesce(o.name, JStr("Untitled")),
             series |-> IF o.series.t = "array" THEN o.series.elems ELSE <<>>,
             address |-> Coalesce(o.address, JStr("")),
             city |-> Coalesce(o.city, JStr("")),
             state |-> Coalesce(o.state, JStr("")),
             notes |-> Coalesce(o.notes, JStr("")),
             scenes |-> IF o.scenes.t = "array" THEN o.scenes.elems ELSE <<>>,
             access |-> Coalesce(o.access, JStr("")),
             lat |-> lat,
             lng |-> lng,
             episodes |-> episodesFromScenes(o.scenes)])

mapLocation(r) ==
    LET coords == CoordsOf(r)
        lng == toNumber(At(coords, 1))
        lat == toNumber(At(coords, 2))
        o == IF r.t = "object" THEN r ELSE RawEmpty
    IN  IF r.t = "null" THEN Threw                       \* raw._id
        ELSE IF ScenesThrow(o.scenes) THEN Threw         \* s.episodes
        ELSE Returned(
            [id |-> Coalesce(o._id, Coalesce(o.id, GeneratedId)),
             name |-> Coalesce(o.name, JStr("Untitled")),
             series |-> IF o.series.t = "array" THEN o.series.elems ELSE <<>>,
             address |-> Coalesce(o.address, JStr("")),
             city |-> Coalesce(o.city, JStr("")),
             state |-> Coalesce(o.state, JStr("")),
             notes |-> Coalesce(o.notes, JStr("")),
             scenes |-> IF o.scenes.t = "array" THEN o.scenes.elems ELSE <<>>,
             access |-> Coalesce(o.access, JStr("")),
             lat |-> lat,
             lng |-> lng,
             episodes |-> episodesFromScenes(o.scenes)])

-----------------------------------------------------------------------------
(* Derived values of a render: locations, visible, option lists *)

\* pageData.content.map(mapLocation)
locations == [i \in 1..Len(pageData.content) |-> mapLocation(pageData.content[i]).rec]

Includes(xs, x) == \E i \in 1..Len(xs) : xs[i] = x

\* l.access === f, for a string f
AccessIs(l, f) == l.access.t = "string" /\ l.access.s = f

\* Faulty variant of applyFilters: a record passes when it matches any filter.
applyFilters_Any(arr, sf, af) ==
    IF sf = "" /\ af = "" THEN arr
    ELSE SelectSeq(arr, LAMBDA l : (sf # "" /\ Includes(l.series, sf))
                                    \/ (af # "" /\ AccessIs(l, af)))

\* Faulty variant of applyFilters: the access filter is applied even when empty.
applyFilters_Unguarded(arr, sf, af) ==
    SelectSeq(SelectSeq(arr, LAMBDA l : sf = "" \/ Includes(l.series, sf)),
              LAMBDA l : AccessIs(l, af))

\* Faulty variant of applyFilters: the access filter removes from the array
\* while walking it, so the entry after a removed one is never tested.
RECURSIVE SpliceByAccess(_, _)
SpliceByAccess(arr, af) ==
    IF arr = <<>> THEN <<>>
    ELSE IF AccessIs(Head(arr), af) THEN <<Head(arr)>> \o SpliceByAccess(Tail(arr), af)
    ELSE IF Tail(arr) = <<>> THEN <<>>
    ELSE <<Head(Tail(arr))>> \o SpliceByAccess(Tail(Tail(arr)), af)

applyFilters_Splice(arr, sf, af) ==
    LET a1 == IF sf # "" THEN SelectSeq(arr, LAMBDA l : Includes(l.series, sf)) ELSE arr
    IN  IF af # "" THEN SpliceByAccess(a1, af) ELSE a1

\* The body of the visible memo, on arr for locations.
applyFilters(arr, sf, af) ==
    LET a1 == IF sf # "" THEN SelectSeq(arr, LAMBDA l : Includes(l.series, sf)) ELSE arr
    IN  IF af # "" THEN SelectSeq(a1, LAMBDA l : AccessIs(l, af)) ELSE a1

visible == applyFilters(locations, seriesFilter, accessFilter)

\* filter(Boolean) on an access value
Truthy(a) == a.t = "other" \/ (a.t = "string" /\ a.s # "")

\* String(a) of an access value offered as an option
AccessOptionValues ==
    {visible[i].access.s : i \in {j \in 1..Len(visible) : Truthy(visible[j].access)
                                                         /\ visible[j].access.t = "string"}}

\* The values collected by allSeries (its order is not modelled here).
AllSeriesValues ==
    UNION {{locations[i].series[j] : j \in 1..Len(locations[i].series)} :
           i \in 1..Len(locations)}

QuickChips == {"Breaking Bad", "Better Call Saul"} \cap AllSeriesValues

\* The strings of the model in ascending order of their UTF-16 code units,
\* the order sort() compares by when it is given no comparator.
CodeUnitOrder ==
    <<"", "Better Call Saul", "Breaking Bad", "Untitled", "private_residence",
      "public_business", "restricted", "x">>

Rank(x) == CHOOSE i \in 1..Len(CodeUnitOrder) : CodeUnitOrder[i] = x

RECURSIVE InsertSorted(_, _)
InsertSorted(x, xs) ==
    IF xs = <<>> THEN <<x>>
    ELSE IF Rank(x) <= Rank(Head(xs)) THEN <<x>> \o xs
    ELSE <<Head(xs)>> \o InsertSorted(x, Tail(xs))

\* Array.prototype.sort() on strings
RECURSIVE SortStrings(_)
SortStrings(xs) == IF xs = <<>> THEN <<>> ELSE InsertSorted(Head(xs), SortStrings(Tail(xs)))

\* arr.map((l) => l.access).filter(Boolean), for the access values that are strings
AccessStrings(arr) ==
    LET kept == SelectSeq(arr, LAMBDA l : Truthy(l.access) /\ l.access.t = "string")
    IN  [i \in 1..Len(kept) |-> kept[i].access.s]

\* arr.forEach((l) => (l.series || []).forEach((s) => ...)): the series values in order
RECURSIVE FlattenSeries(_)
FlattenSeries(arr) ==
    IF arr = <<>> THEN <<>> ELSE Head(arr).series \o FlattenSeries(Tail(arr))

\* Faulty variant of accessOptions: the options are taken from the whole page.
accessOptions_FromLocations == SortStrings(Dedup(AccessStrings(locations), {}))

\* Array.from(new Set(visible.map((l) => l.access).filter(Boolean))).sort()
accessOptions == SortStrings(Dedup(AccessStrings(visible), {}))

\* Faulty variant of allSeries: the options are taken from the visible records.
allSeries_FromVisible == Dedup(FlattenSeries(visible), {})

\* Array.from(set), the set filled from locations in page order
allSeries == Dedup(FlattenSeries(locations), {})

-----------------------------------------------------------------------------
(* The request and the response body *)

InitialSize == 20
SliderStep == 5

Texts == {"", "los"}
Sizes == {InitialSize, InitialSize + SliderStep}

\* Faulty variant of Params: the series filter is sent too.
Params_WithSeries(q, p, sz) ==
    (IF q # "" THEN << <<"name", q>> >> ELSE <<>>)
        \o (IF seriesFilter # "" THEN << <<"series", seriesFilter>> >> ELSE <<>>)
        \o << <<"page", ToString(p)>>, <<"size", ToString(sz)>> >>

\* params: the URLSearchParams entries in the order they are set; toString()
\* is one-to-one on these lists.
Params(q, p, sz) ==
    (IF q # "" THEN << <<"name", q>> >> ELSE <<>>)
        \o << <<"page", ToString(p)>>, <<"size", ToString(sz)>> >>

params == Params(query, page, size)

\* A parsed body: t is "array" (elems: its entries), "object" or "other"
\* (null or a primitive: every key reads undefined).
BareArray(es) ==
    [t |-> "array", elems |-> es, content |-> AUndef, records |-> AUndef,
     totalPages |-> NUndef, page |-> NUndef, number |-> NUndef, size |-> NUndef,
     totalElements |-> NUndef]
Envelope(c, tp, pg, nb, sz, te) ==
    [t |-> "object", elems |-> <<>>, content |-> c, records |-> AUndef,
     totalPages |-> tp, page |-> pg, number |-> nb, size |-> sz, totalElements |-> te]
WithRecords(env, rs) == [env EXCEPT !.records = rs]
NotAnObject == [BareArray(<<>>) EXCEPT !.t = "other"]

\* wire: nothing received in the step
NoBody == [BareArray(<<>>) EXCEPT !.t = "none"]
NoStatus == 0
OkStatus == 200
Received(st, json) == [wire EXCEPT !.status = st, !.body = json]
Sent(ps) == [request |-> ps, status |-> NoStatus, body |-> NoBody]

NumberOr(v, d) == IF v.t = "number" THEN v.n ELSE d

\* Faulty variant of NormalizeResponse: the records are read from json.content
\* only, so a bare array gives an empty page.
NormalizeResponse_EnvelopeOnly(json, sz) ==
    LET content == IF json.content.t = "array" THEN json.content.elems ELSE <<>>
    IN  [content |-> content,
         totalPages |-> NumberOr(json.totalPages, 1),
         page |-> NumberOr(json.page, NumberOr(json.number, 0)),
         size |-> NumberOr(json.size, sz),
         totalElements |-> NumberOr(json.totalElements, Len(content))]

\* src/src/App.jsx:414-424
NormalizeResponse(json, sz) ==
    LET content == IF json.content.t = "array" THEN json.content.elems
                   ELSE IF json.t = "array" THEN json.elems ELSE <<>>
    IN  [content |-> content,
         totalPages |-> NumberOr(json.totalPages, 1),
         page |-> NumberOr(json.page, NumberOr(json.number, 0)),
         size |-> NumberOr(json.size, sz),
         totalElements |-> NumberOr(json.totalElements, Len(content))]

InitialPageData ==
    [content |-> <<>>, totalPages |-> 0, page |-> 0, size |-> InitialSize, totalElements |-> 0]

\* The first variant of the component (src/src/App.jsx:85-112) defaults with
\* ?? and keeps the page index under number; its page holds JSON values.
NormalizeResponseV1(json, sz) ==
    LET content == IF json.content.t = "array" THEN json.content.elems
                   ELSE IF json.t = "array" THEN json.elems ELSE <<>>
    IN  [content |-> content,
         totalPages |-> Coalesce(json.totalPages, Num(1)),
         number |-> Coalesce(json.number, Num(0)),
         size |-> Coalesce(json.size, Num(sz)),
         totalElements |-> Coalesce(json.totalElements, Num(Len(content)))]

InitialPageDataV1 ==
    [content |-> <<>>, totalPages |-> Num(0), number |-> Num(0), size |-> Num(InitialSize),
     totalElements |-> Num(0)]

-----------------------------------------------------------------------------
(* The fetch effect *)

\* One run of the effect whose async function has not ended: what its closure
\* holds once the request is sent (sz, the size it captured, and its cancelled
\* flag) and where the function stands: "fetch" (awaiting fetch) or "json"
\* (awaiting res.json()). fetches holds these runs in the order they started;
\* the request is sent with params when the run starts.
NewFetch(sz) == [sz |-> sz, cancelled |-> FALSE, pc |-> "fetch"]

RemoveAt(xs, k) == SubSeq(xs, 1, k - 1) \o SubSeq(xs, k + 1, Len(xs))

\* Run k is the most recently started run.
IsLatest(k) == latest = "live" /\ k = Len(fetches)
Which(k) == IF IsLatest(k) THEN "latest" ELSE "stale"

HttpStatuses == {404, 500}
HttpMessage(st) == "HTTP " \o ToString(st)
NetworkMessage == "Failed to fetch"
ParseMessage == "Unexpected token < in JSON"

Starts(q, p, sz) == Params(q, p, sz) # params

\* Whether a handler starts a run
StartedBy(q, p, sz) == IF Starts(q, p, sz) THEN "started" ELSE "none"

\* Faulty variant of RunEffect: no run starts while one is loading, so the
\* change made meanwhile is never requested.
RunEffect_SkipsWhileLoading(q, p, sz) ==
    IF Starts(q, p, sz) /\ ~loading
    THEN /\ Len(fetches) < MaxInFlight
         /\ fetches' = Append(fetches, NewFetch(sz))
         /\ latest' = "live"
         /\ pageSrc' = IF pageSrc = "latest" THEN "older" ELSE pageSrc
         /\ loading' = TRUE
         /\ error' = ""
         /\ wire' = Sent(Params(q, p, sz))
    ELSE /\ wire' = Received(NoStatus, NoBody)
         /\ UNCHANGED <<fetches, latest, pageSrc, loading, error>>

\* The effect's dependencies are [params, size]: when the render that follows
\* a handler gives another params, the cleanup of the last run sets its
\* cancelled flag and a new run starts with setLoading(true), setError(null).
RunEffect(q, p, sz) ==
    IF Starts(q, p, sz)
    THEN /\ Len(fetches) < MaxInFlight
         /\ fetches' = Append(IF latest = "live"
                                THEN [fetches EXCEPT ![Len(fetches)].cancelled = TRUE]
                                ELSE fetches,
                              NewFetch(sz))
         /\ latest' = "live"
         /\ pageSrc' = IF pageSrc = "latest" THEN "older" ELSE pageSrc
         /\ loading' = TRUE
         /\ error' = ""
         /\ wire' = Sent(Params(q, p, sz))
    ELSE /\ wire' = Received(NoStatus, NoBody)
         /\ UNCHANGED <<fetches, latest, pageSrc, loading, error>>

\* trail after a step that strays or not
Trail(strays) == IF trail = "steady" /\ strays THEN "strayed" ELSE trail

\* Faulty variant of CatchFinally: a failure also clears the page.
CatchFinally_ClearsPage(k, msg) ==
    /\ fetches' = RemoveAt(fetches, k)
    /\ latest' = IF IsLatest(k) THEN "failed" ELSE latest
    /\ error' = msg
    /\ loading' = IF fetches[k].cancelled THEN loading ELSE FALSE
    /\ pageData' = [content |-> <<>>, totalPages |-> 0, page |-> 0, size |-> InitialSize,
                    totalElements |-> 0]
    /\ lastEvent' = [kind |-> "failed", run |-> Which(k)]
    /\ trail' = Trail(~fetches[k].cancelled)
    /\ UNCHANGED <<query, page, size, pageSrc, seriesFilter, accessFilter, raw, normOut>>

\* Faulty variant of CatchFinally: the finally block is left out.
CatchFinally_KeepsLoading(k, msg) ==
    /\ fetches' = RemoveAt(fetches, k)
    /\ latest' = IF IsLatest(k) THEN "failed" ELSE latest
    /\ error' = msg
    /\ lastEvent' = [kind |-> "failed", run |-> Which(k)]
    /\ trail' = Trail(~fetches[k].cancelled)
    /\ UNCHANGED <<query, page, size, loading, pageData, pageSrc, seriesFilter, accessFilter,
                   raw, normOut>>

\* catch (e) { setError(e.message) } finally { if (!cancelled) setLoading(false) }
CatchFinally(k, msg) ==
    /\ fetches' = RemoveAt(fetches, k)
    /\ latest' = IF IsLatest(k) THEN "failed" ELSE latest
    /\ error' = msg
    /\ loading' = IF fetches[k].cancelled THEN loading ELSE FALSE
    /\ lastEvent' = [kind |-> "failed", run |-> Which(k)]
    /\ trail' = Trail(~fetches[k].cancelled)
    /\ UNCHANGED <<query, page, size, pageData, pageSrc, seriesFilter, accessFilter, raw, normOut>>

\* await fetch(...) rejects (network failure)
FetchRejects(k) ==
    /\ fetches[k].pc = "fetch"
    /\ wire' = Received(NoStatus, NoBody)
    /\ CatchFinally(k, NetworkMessage)

\* Faulty variant of ResponseNotOk: res.ok is not tested, and the function
\* goes on to parse the body of the error response.
ResponseNotOk_NoOkCheck(k, st) ==
    /\ fetches[k].pc = "fetch"
    /\ fetches' = [fetches EXCEPT ![k].pc = "json"]
    /\ wire' = Received(st, NoBody)
    /\ lastEvent' = [kind |-> "responded", run |-> Which(k)]
    /\ UNCHANGED <<query, page, size, loading, error, pageData, seriesFilter, accessFilter,
                   latest, pageSrc, raw, normOut, trail>>

\* if (!res.ok) throw new Error(`HTTP ${res.status}`)
ResponseNotOk(k, st) ==
    /\ fetches[k].pc = "fetch"
    /\ wire' = Received(st, NoBody)
    /\ CatchFinally(k, HttpMessage(st))

\* res.ok: the function goes on to await res.json()
ResponseOk(k) ==
    /\ fetches[k].pc = "fetch"
    /\ fetches' = [fetches EXCEPT ![k].pc = "json"]
    /\ wire' = Received(OkStatus, NoBody)
    /\ lastEvent' = [kind |-> "responded", run |-> Which(k)]
    /\ UNCHANGED <<query, page, size, loading, error, pageData, seriesFilter, accessFilter,
                   latest, pageSrc, raw, normOut, trail>>

\* await res.json() rejects (the body is not JSON)
JsonRejects(k) ==
    /\ fetches[k].pc = "json"
    /\ wire' = Received(NoStatus, NoBody)
    /\ CatchFinally(k, ParseMessage)

\* Faulty variant of JsonParsed: the response is committed without looking at
\* the cancelled flag.
JsonParsed_NoCancelCheck(k, json) ==
    /\ fetches[k].pc = "json"
    /\ fetches' = RemoveAt(fetches, k)
    /\ latest' = IF IsLatest(k) THEN "committed" ELSE latest
    /\ pageData' = NormalizeResponse(json, fetches[k].sz)
    /\ pageSrc' = Which(k)
    /\ loading' = IF fetches[k].cancelled THEN loading ELSE FALSE
    /\ lastEvent' = [kind |-> "committed", run |-> Which(k)]
    /\ wire' = Received(NoStatus, json)
    /\ UNCHANGED <<query, page, size, error, seriesFilter, accessFilter, raw, normOut, trail>>

\* res.json() resolves: if (cancelled) return; else setPageData(normalized),
\* and the finally block
JsonParsed(k, json) ==
    /\ fetches[k].pc = "json"
    /\ fetches' = RemoveAt(fetches, k)
    /\ IF fetches[k].cancelled
       THEN /\ latest' = IF IsLatest(k) THEN "dropped" ELSE latest
            /\ lastEvent' = [kind |-> "dropped", run |-> Which(k)]
            /\ wire' = Received(NoStatus, NoBody)
            /\ UNCHANGED <<pageData, pageSrc, loading>>
       ELSE /\ latest' = IF IsLatest(k) THEN "committed" ELSE latest
            /\ lastEvent' = [kind |-> "committed", run |-> Which(k)]
            /\ pageData' = NormalizeResponse(json, fetches[k].sz)
            /\ pageSrc' = Which(k)
            /\ loading' = FALSE
            /\ wire' = Received(NoStatus, json)
    /\ UNCHANGED <<query, page, size, error, seriesFilter, accessFilter, raw, normOut, trail>>

\* The first variant: res.json() resolves (src/src/App.jsx:93-109)
JsonParsedV1(k, json) ==
    /\ fetches[k].pc = "json"
    /\ fetches' = RemoveAt(fetches, k)
    /\ IF fetches[k].cancelled
       THEN /\ latest' = IF IsLatest(k) THEN "dropped" ELSE latest
            /\ lastEvent' = [kind |-> "dropped", run |-> Which(k)]
            /\ wire' = Received(NoStatus, NoBody)
            /\ UNCHANGED <<pageData, pageSrc, loading>>
       ELSE /\ latest' = IF IsLatest(k) THEN "committed" ELSE latest
            /\ lastEvent' = [kind |-> "committed", run |-> Which(k)]
            /\ pageData' = NormalizeResponseV1(json, fetches[k].sz)
            /\ pageSrc' = Which(k)
            /\ loading' = FALSE
            /\ wire' = Received(NoStatus, json)
    /\ UNCHANGED <<query, page, size, error, seriesFilter, accessFilter, raw, normOut, trail>>

-----------------------------------------------------------------------------
(* Handlers. A handler, the render it causes and the effect that follows run
   in one turn of the event loop. *)

\* onChange of either search input: setPage(0); setQuery(e.target.value)
SetQuery(v) ==
    /\ page' = 0
    /\ query' = v
    /\ RunEffect(v, 0, size)
    /\ lastEvent' = [kind |-> "search", run |-> StartedBy(v, 0, size)]
    /\ UNCHANGED <<size, pageData, seriesFilter, accessFilter, raw, normOut, trail>>

\* Clear: setPage(0); setQuery("")
ClearQuery ==
    /\ page' = 0
    /\ query' = ""
    /\ RunEffect("", 0, size)
    /\ lastEvent' = [kind |-> "search", run |-> StartedBy("", 0, size)]
    /\ UNCHANGED <<size, pageData, seriesFilter, accessFilter, raw, normOut, trail>>

\* Faulty variant of SelectSeries: setPage(0) is left out.
SelectSeries_KeepsPage(v) ==
    /\ seriesFilter' = IF v = "__any__" THEN "" ELSE v
    /\ RunEffect(query, page, size)
    /\ lastEvent' = [kind |-> "facet", run |-> StartedBy(query, page, size)]
    /\ UNCHANGED <<query, page, size, pageData, accessFilter, raw, normOut, trail>>

\* Series select: setPage(0); setSeriesFilter(v === "__any__" ? "" : v)
SelectSeries(v) ==
    /\ page' = 0
    /\ seriesFilter' = IF v = "__any__" THEN "" ELSE v
    /\ RunEffect(query, 0, size)
    /\ lastEvent' = [kind |-> "facet", run |-> StartedBy(query, 0, size)]
    /\ UNCHANGED <<query, size, pageData, accessFilter, raw, normOut, trail>>

\* Quick chip: setPage(0); setSeriesFilter(seriesFilter === s ? "" : s)
ToggleSeriesChip(s) ==
    /\ page' = 0
    /\ seriesFilter' = IF seriesFilter = s THEN "" ELSE s
    /\ RunEffect(query, 0, size)
    /\ lastEvent' = [kind |-> "facet", run |-> StartedBy(query, 0, size)]
    /\ UNCHANGED <<query, size, pageData, accessFilter, raw, normOut, trail>>

\* Faulty variant of SelectAccess: the access filter is part of the request,
\* so the handler starts a run whenever the filter changes.
SelectAccess_Refetches(v) ==
    /\ page' = 0
    /\ accessFilter' = IF v = "__any__" THEN "" ELSE v
    /\ IF accessFilter' # accessFilter
       THEN /\ Len(fetches) < MaxInFlight
            /\ fetches' = Append(IF latest = "live"
                                   THEN [fetches EXCEPT ![Len(fetches)].cancelled = TRUE]
                                   ELSE fetches,
                                 NewFetch(size))
            /\ latest' = "live"
            /\ pageSrc' = IF pageSrc = "latest" THEN "older" ELSE pageSrc
            /\ loading' = TRUE
            /\ error' = ""
            /\ wire' = Sent(Params(query, 0, size))
            /\ lastEvent' = [kind |-> "facet", run |-> "started"]
       ELSE /\ RunEffect(query, 0, size)
            /\ lastEvent' = [kind |-> "facet", run |-> StartedBy(query, 0, size)]
    /\ UNCHANGED <<query, size, pageData, seriesFilter, raw, normOut, trail>>

\* Access select: setPage(0); setAccessFilter(v === "__any__" ? "" : v)
SelectAccess(v) ==
    /\ page' = 0
    /\ accessFilter' = IF v = "__any__" THEN "" ELSE v
    /\ RunEffect(query, 0, size)
    /\ lastEvent' = [kind |-> "facet", run |-> StartedBy(query, 0, size)]
    /\ UNCHANGED <<query, size, pageData, seriesFilter, raw, normOut, trail>>

\* Reset: setQuery(""); setSeriesFilter(""); setAccessFilter(""); setPage(0)
Reset ==
    /\ query' = ""
    /\ seriesFilter' = ""
    /\ accessFilter' = ""
    /\ page' = 0
    /\ RunEffect("", 0, size)
    /\ lastEvent' = [kind |-> "reset", run |-> StartedBy("", 0, size)]
    /\ UNCHANGED <<size, pageData, raw, normOut, trail>>

\* Page size slider: setSize(v[0])
SetSize(v) ==
    /\ size' = v
    /\ RunEffect(query, page, v)
    /\ lastEvent' = [kind |-> "size", run |-> StartedBy(query, page, v)]
    /\ trail' = Trail(v > size /\ page > 0)
    /\ UNCHANGED <<query, page, pageData, seriesFilter, accessFilter, raw, normOut>>

Max(a, b) == IF a >= b THEN a ELSE b

\* Previous: disabled={page <= 0 || loading}; setPage(p => Math.max(0, p - 1))
Previous ==
    /\ ~(page <= 0 \/ loading)
    /\ page' = Max(0, page - 1)
    /\ RunEffect(query, Max(0, page - 1), size)
    /\ lastEvent' = [kind |-> "nav", run |-> StartedBy(query, Max(0, page - 1), size)]
    /\ UNCHANGED <<query, size, pageData, seriesFilter, accessFilter, raw, normOut, trail>>

\* Faulty variant of NextPage: the button is not disabled while loading.
NextPage_IgnoresLoading ==
    /\ ~(page + 1 >= pageData.totalPages)
    /\ page' = page + 1
    /\ RunEffect(query, page + 1, size)
    /\ lastEvent' = [kind |-> "nav", run |-> StartedBy(query, page + 1, size)]
    /\ UNCHANGED <<query, size, pageData, seriesFilter, accessFilter, raw, normOut, trail>>

\* Next: disabled={page + 1 >= pageData.totalPages || loading}; setPage(p => p + 1)
NextPage ==
    /\ ~(page + 1 >= pageData.totalPages \/ loading)
    /\ page' = page + 1
    /\ RunEffect(query, page + 1, size)
    /\ lastEvent' = [kind |-> "nav", run |-> StartedBy(query, page + 1, size)]
    /\ UNCHANGED <<query, size, pageData, seriesFilter, accessFilter, raw, normOut, trail>>

\* Next in the first variant (src/src/App.jsx:277), whose page holds the JSON
\* value of totalPages: >= converts a non-number with ToNumber, which gives
\* NaN (every comparison false) or a number, depending on the value.
NextPageV1 ==
    /\ \/ pageData.totalPages.t = "number" /\ ~(page + 1 >= pageData.totalPages.n)
       \/ pageData.totalPages.t = "other"
    /\ ~loading
    /\ page < MaxPage
    /\ page' = page + 1
    /\ RunEffect(query, page + 1, size)
    /\ lastEvent' = [kind |-> "nav", run |-> StartedBy(query, page + 1, size)]
    /\ UNCHANGED <<query, size, pageData, seriesFilter, accessFilter, raw, normOut, trail>>

\* The option values the selects offer
SeriesOptionValues == {"__any__"} \cup AllSeriesValues
AccessSelectValues == {"__any__"} \cup AccessOptionValues

-----------------------------------------------------------------------------
(* Inputs drawn *)

SeqsUpTo(S, n) == UNION {[1..m -> S] : m \in 0..n}

\* Records following the documented schema (_id, name, series[], access,
\* geolocation: [lng, lat], scenes[{episodes[]}]).
Scene(eps) == SObj(Arr(eps))
RecPollos ==
    RawObj(JStr("a"), JStr("Los Pollos Hermanos"), Arr(<<"Breaking Bad">>),
           JStr("public_business"), GObj(Arr(<<CNum(-106), CNum(35)>>)),
           Arr(<<Scene(<<EStr("S2E11")>>)>>))
RecSuperlab ==
    RawObj(JStr("b"), JStr("Superlab"), Arr(<<"Breaking Bad", "Better Call Saul">>),
           JStr("restricted"), GObj(Arr(<<CNum(-106), CNum(35)>>)), Arr(<<>>))
RecHHM ==
    RawObj(JStr("c"), JStr("HHM"), Arr(<<"Better Call Saul">>),
           JStr("restricted"), GUndef, AUndef)
RecBare == RawObj(JUndef, JUndef, AUndef, JUndef, GUndef, AUndef)

SampleRecords == {RecPollos, RecSuperlab, RecHHM, RecBare}

\* A body with one record, 3 pages and 45 records in all
ScenarioPage == Envelope(Arr(<<RecPollos>>), Num(3), NUndef, NUndef, NUndef, Num(45))

\* Bodies the server may answer a request with.
Responses == {BareArray(<<RecBare>>), ScenarioPage}

CoordChars == {"7", "-", "x"}
CoordStrings == SeqsUpTo(CoordChars, MaxStrLen)
CoordValues ==
    {CNull, CNum(-106), CNum(35), CNonFinite, COther} \cup {CStr(cs) : cs \in CoordStrings}
GeoValues ==
    {GUndef, GNull, GPrim, GObj(AUndef), GObj(ANotArray)}
        \cup {GObj(Arr(a)) : a \in SeqsUpTo(CoordValues, MaxCoords)}
SceneValues ==
    {AUndef, ANotArray, Arr(<<>>), Arr(<<SNull>>), Arr(<<SPrim>>), Arr(<<SObj(AUndef)>>),
     Arr(<<SObj(ANotArray)>>),
     Arr(<<Scene(<<ENum(1), EStr("1"), EStr("S1E1")>>), Scene(<<EStr("S1E1"), ENum(2)>>)>>),
     Arr(<<Scene(<<EStr("S1E1")>>), SNull>>)}
FlatValues == {CUndef, CNum(36), CStr(<<"7">>)}
TextValues == {JUndef, JNull, JOther, JStr("x")}
SeriesValues == {AUndef, ANotArray, Arr(<<"Breaking Bad">>)}

RawRecords ==
    {RawNull, RawPrim}
        \cup {RawObj(JStr("a"), JStr("x"), AUndef, JUndef, g, AUndef) : g \in GeoValues}
        \cup {RawObj(JStr("a"), JStr("x"), AUndef, JUndef, g, sc) :
                 g \in {GUndef, GObj(Arr(<<CNum(-106), CNum(35)>>))}, sc \in SceneValues}
        \cup {RawObj(i, nm, ser, acc, GUndef, AUndef) :
                 i \in TextValues, nm \in TextValues, ser \in SeriesValues, acc \in TextValues}
        \cup {WithFlat(RawObj(JStr("a"), JStr("x"), AUndef, JUndef, g, AUndef), la, lo, la2, lo2) :
                 g \in {GUndef, GObj(Arr(<<CNum(-106), CNum(35)>>))},
                 la \in FlatValues, lo \in FlatValues,
                 la2 \in {CUndef, CNum(34)}, lo2 \in {CUndef, CNum(-105)}}

-----------------------------------------------------------------------------
(* Specifications *)

\* The view after mounting: the initial state values, and the first run of
\* the effect started.
Init ==
    /\ query = ""
    /\ page = 0
    /\ size = InitialSize
    /\ loading = TRUE
    /\ error = ""
    /\ pageData = InitialPageData
    /\ seriesFilter = ""
    /\ accessFilter = ""
    /\ fetches = <<NewFetch(InitialSize)>>
    /\ latest = "live"
    /\ pageSrc = "none"
    /\ lastEvent = [kind |-> "mount", run |-> "started"]
    /\ wire = Sent(Params("", 0, InitialSize))
    /\ raw = RawEmpty
    /\ normOut = Pending
    /\ trail = "untracked"

Handlers ==
    \/ \E v \in Texts : SetQuery(v)
    \/ ClearQuery
    \/ \E v \in SeriesOptionValues : SelectSeries(v)
    \/ \E s \in QuickChips : ToggleSeriesChip(s)
    \/ \E v \in AccessSelectValues : SelectAccess(v)
    \/ Reset
    \/ \E v \in Sizes : SetSize(v)
    \/ Previous
    \/ NextPage

Network ==
    \E k \in 1..Len(fetches) :
        \/ FetchRejects(k)
        \/ \E st \in HttpStatuses : ResponseNotOk(k, st)
        \/ ResponseOk(k)
        \/ JsonRejects(k)
        \/ \E json \in Responses : JsonParsed(k, json)

Next == Handlers \/ Network

Spec == Init /\ [][Next]_vars

\* The filter on a loaded page: the first fetch has committed a page whose
\* content is drawn, and the facet handlers act on it.
InitFilter ==
    /\ query = ""
    /\ page = 0
    /\ size = InitialSize
    /\ loading = FALSE
    /\ error = ""
    /\ seriesFilter = ""
    /\ accessFilter = ""
    /\ fetches = <<>>
    /\ latest = "committed"
    /\ pageSrc = "latest"
    /\ lastEvent = [kind |-> "committed", run |-> "latest"]
    /\ \E c \in SeqsUpTo(SampleRecords, MaxRecords) :
           /\ pageData = NormalizeResponse(BareArray(c), InitialSize)
           /\ wire = [Sent(Params("", 0, InitialSize)) EXCEPT !.body = BareArray(c)]
    /\ raw = RawEmpty
    /\ normOut = Pending
    /\ trail = "untracked"

NextFilter ==
    \/ \E v \in SeriesOptionValues : SelectSeries(v)
    \/ \E s \in QuickChips : ToggleSeriesChip(s)
    \/ \E v \in AccessSelectValues : SelectAccess(v)
    \/ Reset

SpecFilter == InitFilter /\ [][NextFilter]_vars

\* The normalizer on one drawn entry of the record sequence.
InitNorm ==
    /\ query = ""
    /\ page = 0
    /\ size = InitialSize
    /\ loading = TRUE
    /\ error = ""
    /\ pageData = InitialPageData
    /\ seriesFilter = ""
    /\ accessFilter = ""
    /\ fetches = <<NewFetch(InitialSize)>>
    /\ latest = "live"
    /\ pageSrc = "none"
    /\ lastEvent = [kind |-> "mount", run |-> "started"]
    /\ wire = Sent(Params("", 0, InitialSize))
    /\ raw \in RawRecords
    /\ normOut = Pending
    /\ trail = "untracked"

Normalize ==
    /\ normOut.state = "pending"
    /\ normOut' = mapLocation(raw)
    /\ UNCHANGED <<raw, uiVars>>

NextNorm == Normalize

SpecNorm == InitNorm /\ [][NextNorm]_vars

\* Values a body may carry under a numeric key
NumValues == {NUndef, NNull, NOther, Num(0), Num(2)}

\* (page, number) pairs a body may carry
PageNumberPairs ==
    { <<NUndef, NUndef>>, <<Num(2), NUndef>>, <<NUndef, Num(1)>>, <<Num(2), Num(1)>>,
      <<NOther, Num(1)>>, <<NNull, Num(1)>> }

ContentValues == {AUndef, ANotArray, Arr(<<>>), Arr(<<RecPollos, RecBare>>)}
RecordsValues == {AUndef, Arr(<<RecHHM>>)}

\* Bodies of every shape the normalization tells apart
Bodies ==
    {BareArray(es) : es \in SeqsUpTo({RecPollos, RecBare}, MaxRecords)}
        \cup {NotAnObject}
        \cup {WithRecords(Envelope(c, tp, pn[1], pn[2], sz, te), rs) :
                 c \in ContentValues, rs \in RecordsValues, tp \in NumValues,
                 pn \in PageNumberPairs, sz \in NumValues, te \in NumValues}

\* The most recently started run has received a 2xx response and awaits
\* res.json(); the page on display is an earlier one, with 3 pages, from which
\* Next led to the page index requested.
InitResp ==
    /\ query = ""
    /\ page \in 0..MaxPage
    /\ size \in Sizes
    /\ loading = TRUE
    /\ error = ""
    /\ pageData = NormalizeResponse(ScenarioPage, InitialSize)
    /\ seriesFilter = ""
    /\ accessFilter = ""
    /\ fetches = <<[NewFetch(size) EXCEPT !.pc = "json"]>>
    /\ latest = "live"
    /\ pageSrc = "older"
    /\ lastEvent = [kind |-> "responded", run |-> "latest"]
    /\ wire = [Sent(Params(query, page, size)) EXCEPT !.status = OkStatus]
    /\ raw = RawEmpty
    /\ normOut = Pending
    /\ trail = "untracked"

NextResp == \E k \in 1..Len(fetches) : \E json \in Bodies : JsonParsed(k, json)

SpecResp == InitResp /\ [][NextResp]_vars

\* The first variant after mounting, its first run awaiting res.json().
InitRespV1 ==
    /\ query = ""
    /\ page = 0
    /\ size = InitialSize
    /\ loading = TRUE
    /\ error = ""
    /\ pageData = InitialPageDataV1
    /\ seriesFilter = ""
    /\ accessFilter = ""
    /\ fetches = <<[NewFetch(size) EXCEPT !.pc = "json"]>>
    /\ latest = "live"
    /\ pageSrc = "none"
    /\ lastEvent = [kind |-> "responded", run |-> "latest"]
    /\ wire = [Sent(Params(query, page, size)) EXCEPT !.status = OkStatus]
    /\ raw = RawEmpty
    /\ normOut = Pending
    /\ trail = "untracked"

NextRespV1 ==
    \/ \E k \in 1..Len(fetches) : \E json \in Bodies : JsonParsedV1(k, json)
    \/ NextPageV1

SpecRespV1 == InitRespV1 /\ [][NextRespV1]_vars

-----------------------------------------------------------------------------
(* Claims *)

ErrorMessages == {NetworkMessage, ParseMessage} \cup {HttpMessage(st) : st \in HttpStatuses}

\* The step ends the async function of a run of the given standing.
Settles(which) ==
    /\ fetches' # fetches
    /\ lastEvent'.kind \in {"committed", "failed", "dropped"}
    /\ lastEvent'.run = which

\* C1: pageData is never the response of a superseded run, and once the most
\* recently started run has committed its response the page shown is its
\* result, whenever the responses of the runs it superseded arrive.
C1_LatestPageWins ==
    /\ pageSrc # "stale"
    /\ latest = "committed" => pageSrc = "latest"

\* The most recently started run has committed its response, and the
\* successful response of a run it superseded arrived after that.
C1_Witness ==
    /\ latest = "committed"
    /\ lastEvent = [kind |-> "dropped", run |-> "stale"]
    /\ pageSrc = "latest"

\* C2: the completion of a superseded run, with success or failure, changes
\* none of pageData, error and loading.
C2_SupersededCompletionDiscarded ==
    [][Settles("stale") => UNCHANGED <<pageData, error, loading>>]_vars

\* C3: when the most recently started run fails, its error is stored and
\* pageData is left as it was.
C3_FailureKeepsPage ==
    [][(Settles("latest") /\ lastEvent'.kind = "failed")
        => (error' \in ErrorMessages /\ pageData' = pageData)]_vars

\* The most recently started run failed while a fetched page with records was
\* on display.
C3_Witness ==
    /\ lastEvent = [kind |-> "failed", run |-> "latest"]
    /\ latest = "failed"
    /\ error \in ErrorMessages
    /\ pageSrc = "older"
    /\ Len(pageData.content) > 0

\* C4: every handler that sets the search text or a facet filter leaves page
\* at 0; the page size handler leaves page as it was.
C4_FilterResetsPage ==
    [][/\ lastEvent'.kind \in {"search", "facet", "reset"} => page' = 0
       /\ lastEvent'.kind = "size" => page' = page]_vars

\* A facet handler ran on a page index above 0: setting page to 0 changed
\* params, so the handler started a run.
C4_Witness ==
    /\ lastEvent = [kind |-> "facet", run |-> "started"]
    /\ page = 0

\* The record passes every non-empty facet filter.
Passes(l, sf, af) ==
    /\ sf # "" => \E j \in 1..Len(l.series) : l.series[j] = sf
    /\ af # "" => l.access = JStr(af)

PassingIndexes ==
    LET locs == locations
    IN  {i \in 1..Len(locs) : Passes(locs[i], seriesFilter, accessFilter)}

\* The k-th smallest member of the set of indexes I
Nth(I, k) == CHOOSE i \in I : Cardinality({j \in I : j <= i}) = k

\* C5: visible holds exactly the records of the page that pass every
\* non-empty facet filter, in the order they have in the page.
C5_VisibleIsOrderedConjunction ==
    LET locs == locations
        vis == visible
        I == PassingIndexes
    IN  /\ Len(vis) = Cardinality(I)
        /\ \A k \in 1..Len(vis) : vis[k] = locs[Nth(I, k)]

\* Access filter "restricted" on a page of 5 records, 2 of them restricted and
\* not adjacent: exactly those 2 are visible.
C5_Witness ==
    /\ Len(locations) = 5
    /\ seriesFilter = ""
    /\ accessFilter = "restricted"
    /\ PassingIndexes = {2, 5}
    /\ visible = <<locations[2], locations[5]>>
    /\ locations[2] # locations[5]

\* C9: with both facet filters empty, visible is the page's record sequence.
C9_NoFilterIsIdentity ==
    (seriesFilter = "" /\ accessFilter = "") => visible = locations

\* Both filters were cleared by Reset on a page with several different records.
C9_Witness ==
    /\ lastEvent.kind = "reset"
    /\ seriesFilter = ""
    /\ accessFilter = ""
    /\ Len(locations) >= 3
    /\ \E i, j \in 1..Len(locations) : locations[i].access # locations[j].access
    /\ visible = locations

SeriesTexts == {"", "Breaking Bad", "Better Call Saul"}
AccessTexts == {"", "restricted", "public_business"}

\* C10: filtering the filtered sequence again with the same filters gives the
\* same sequence, for every filter assignment.
C10_FilterIdempotent ==
    LET locs == locations
    IN  \A sf \in SeriesTexts, af \in AccessTexts :
            LET once == applyFilters(locs, sf, af)
            IN  applyFilters(once, sf, af) = once

\* Both filters are set and remove some of the page's records but not all.
C10_Witness ==
    /\ seriesFilter # ""
    /\ accessFilter # ""
    /\ Len(visible) > 0
    /\ Len(visible) < Len(locations)
    /\ applyFilters(visible, seriesFilter, accessFilter) = visible

\* The entry carries no coordinate field: geolocation is absent, or has no
\* coordinates key.
NoCoordinateFields(r) ==
    r.t # "object" \/ r.geolocation.t # "object" \/ r.geolocation.coordinates.t = "undefined"

Present(c) == c.t = "number"

\* C6: mapLocation returns a canonical record for every entry of the record
\* sequence; it never throws.
C6_NormalizeTotal == normOut.state # "threw"

\* C7: latitude and longitude of the canonical record are both present or
\* both absent.
C7_BothOrNeither ==
    normOut.state = "returned" => (Present(normOut.rec.lat) <=> Present(normOut.rec.lng))

\* C8: for an entry with no coordinate fields, mapLocation yields a record
\* whose latitude and longitude are both absent.
C8_NoCoordinatesBothAbsent ==
    (NoCoordinateFields(raw) /\ normOut.state # "pending")
        => (normOut.state = "returned" /\ ~Present(normOut.rec.lat) /\ ~Present(normOut.rec.lng))

\* Whenever mapLocation returns for such an entry, both are absent.
C8_WhenReturned ==
    (NoCoordinateFields(raw) /\ normOut.state = "returned")
        => (~Present(normOut.rec.lat) /\ ~Present(normOut.rec.lng))

-----------------------------------------------------------------------------
(* Claims on the fetch pipeline *)

\* The documented example body: one record whose coordinates are
\* geolocation.coordinates = [lng, lat], totalPages 3, totalElements 45, no
\* page, number or size key. (-106 and 35 stand for -106.65 and 35.08.)
ScenarioBody ==
    Envelope(Arr(<<RawObj(JStr("a"), JStr("Los Pollos Hermanos"), Arr(<<"Breaking Bad">>),
                          JStr("public_business"), GObj(Arr(<<CNum(-106), CNum(35)>>)),
                          Arr(<<SObj(Arr(<<EStr("S2E11")>>))>>))>>),
             Num(3), NUndef, NUndef, NUndef, Num(45))

\* C11: the example body, answered to a request with size 20, gives one
\* record whose lat is the second coordinate and whose lng is the first, and
\* a page with page 0, totalPages 3 and totalElements 45.
C11_ScenarioNormalizes ==
    (lastEvent.kind = "committed" /\ wire.body = ScenarioBody /\ size = InitialSize)
        => LET locs == locations
           IN  /\ Len(locs) = 1
               /\ locs[1].lat = CNum(35)
               /\ locs[1].lng = CNum(-106)
               /\ pageData.page = 0
               /\ pageData.totalPages = 3
               /\ pageData.totalElements = 45

\* The example body was committed for a request with size 20.
C11_Witness ==
    /\ lastEvent.kind = "committed"
    /\ wire.body = ScenarioBody
    /\ size = InitialSize
    /\ wire.request = << <<"page", "0">>, <<"size", "20">> >>
    /\ Len(locations) = 1

\* C14: when the most recently started run receives a non-2xx response, it
\* ends there (the body is never parsed), the error stored is the one that
\* names that status, and pageData is left as it was.
C14_HttpErrorStored ==
    [][(wire'.status \in HttpStatuses /\ lastEvent'.run = "latest")
        => /\ lastEvent'.kind = "failed"
           /\ Len(fetches') = Len(fetches) - 1
           /\ error' = HttpMessage(wire'.status)
           /\ \A st \in HttpStatuses \ {wire'.status} : error' # HttpMessage(st)
           /\ pageData' = pageData
           /\ pageSrc' = pageSrc]_vars

\* The most recently started run received a 404 while a fetched page was on
\* display.
C14_Witness ==
    /\ wire.status = 404
    /\ lastEvent = [kind |-> "failed", run |-> "latest"]
    /\ error = "HTTP 404"
    /\ latest = "failed"
    /\ Len(pageData.content) > 0

RequestKeys == {wire.request[i][1] : i \in 1..Len(wire.request)}
RequestValue(key) ==
    LET i == CHOOSE j \in 1..Len(wire.request) : wire.request[j][1] = key
    IN  wire.request[i][2]

\* C15: the query string of the request holds page and size with the current
\* values, name exactly when the search text is not empty, each once, and
\* no other parameter.
C15_QueryStringParameters ==
    /\ RequestKeys = {"page", "size"} \cup (IF query # "" THEN {"name"} ELSE {})
    /\ Len(wire.request) = Cardinality(RequestKeys)
    /\ RequestValue("page") = ToString(page)
    /\ RequestValue("size") = ToString(size)
    /\ query # "" => RequestValue("name") = query

\* A request was sent with a search text, a page above 0 and another size
\* while both facet filters were set.
C15_Witness ==
    /\ seriesFilter # ""
    /\ accessFilter # ""
    /\ query # ""
    /\ page > 0
    /\ size # InitialSize
    /\ lastEvent.run = "started"
    /\ RequestKeys = {"name", "page", "size"}

HandlerKinds == {"search", "facet", "reset", "size", "nav"}

\* C16 as stated: every handler that changes the search text, the page index,
\* the page size or a facet filter starts exactly one run.
C16_OneRequestPerQueryStateChange ==
    [][(/\ lastEvent'.kind \in HandlerKinds
        /\ <<query, page, size, seriesFilter, accessFilter>>'
               # <<query, page, size, seriesFilter, accessFilter>>)
        => Len(fetches') = Len(fetches) + 1]_vars

\* C16 as amended: every handler that changes the search text, the page index
\* or the page size starts exactly one run, and a handler that changes none
\* of them (a facet filter alone) starts none.
C16_OneRequestPerParamsChange ==
    [][lastEvent'.kind \in HandlerKinds
        => Len(fetches') = Len(fetches)
               + (IF <<query, page, size>>' # <<query, page, size>> THEN 1 ELSE 0)]_vars

\* A handler that set both the page index and the search text started one
\* run while the run before it was still awaiting its response.
C16_Witness ==
    /\ lastEvent = [kind |-> "search", run |-> "started"]
    /\ Len(fetches) = 2
    /\ fetches[1].cancelled
    /\ ~fetches[2].cancelled

\* C18: loading is true once a run starts; when the most recently started run
\* ends, either its page is committed and error is unset, or its error is
\* stored and pageData is kept, and loading is false.
C18_FetchCycle ==
    [][/\ Len(fetches') > Len(fetches) => loading'
       /\ Settles("latest")
            => /\ loading' = FALSE
               /\ \/ /\ lastEvent'.kind = "committed"
                     /\ pageSrc' = "latest"
                     /\ pageData' = NormalizeResponse(wire'.body, size)
                     /\ error' = ""
                  \/ /\ lastEvent'.kind = "failed"
                     /\ error' \in ErrorMessages
                     /\ pageData' = pageData]_vars

\* C19: the page held satisfies page >= 0, size > 0, totalPages >= 1 and
\* totalElements >= 0.
C19_PageInvariant ==
    /\ pageData.page >= 0
    /\ pageData.size > 0
    /\ pageData.totalPages >= 1
    /\ pageData.totalElements >= 0

\* C12: a bare array of n records gives a page with those records in order,
\* totalPages 1 and totalElements n, whatever page index was requested.
C12_BareArrayPage ==
    (lastEvent.kind = "committed" /\ wire.body.t = "array")
        => /\ pageData.content = wire.body.elems
           /\ Len(locations) = Len(wire.body.elems)
           /\ pageData.totalPages = 1
           /\ pageData.totalElements = Len(wire.body.elems)

\* A bare array of 2 different records was committed for a request of page
\* index 2.
C12_Witness ==
    /\ lastEvent.kind = "committed"
    /\ wire.body.t = "array"
    /\ wire.request = << <<"page", "2">>, <<"size", "20">> >>
    /\ pageData.content = <<RecBare, RecPollos>>
    /\ pageData.totalPages = 1
    /\ pageData.totalElements = 2

\* The same on the first variant, whose page holds JSON values: it holds there.
C12_FirstVariant ==
    (lastEvent.kind = "committed" /\ wire.body.t = "array")
        => /\ pageData.content = wire.body.elems
           /\ pageData.totalPages = Num(1)
           /\ pageData.totalElements = Num(Len(wire.body.elems))

\* The value the claim gives a page field: the body's when it is a number,
\* else the default.
Claimed(v, d) == IF v.t = "number" THEN v.n ELSE d

\* C13 on the first variant: after a non-array body every field of the page
\* is a number, the body's when the body carries a number, else the default
\* (the page index from page, else number).
C13_FieldsDefaulted ==
    (lastEvent.kind = "committed" /\ wire.body.t # "array")
        => LET b == wire.body
           IN  /\ pageData.totalPages = Num(Claimed(b.totalPages, 1))
               /\ pageData.number = Num(Claimed(b.page, Claimed(b.number, 0)))
               /\ pageData.size = Num(Claimed(b.size, size))
               /\ pageData.totalElements = Num(Claimed(b.totalElements, Len(pageData.content)))

\* The same on the second variant and the themed one: it holds there.
C13_SecondVariant ==
    (lastEvent.kind = "committed" /\ wire.body.t # "array")
        => LET b == wire.body
           IN  /\ pageData.totalPages = Claimed(b.totalPages, 1)
               /\ pageData.page = Claimed(b.page, Claimed(b.number, 0))
               /\ pageData.size = Claimed(b.size, size)
               /\ pageData.totalElements = Claimed(b.totalElements, Len(pageData.content))

\* C20: an envelope without content that carries its records under records
\* gives a page with those records.
C20_RecordsKeyRead ==
    (/\ lastEvent.kind = "committed"
     /\ wire.body.t = "object"
     /\ wire.body.content.t = "undefined"
     /\ wire.body.records.t = "array")
        => pageData.content = wire.body.records.elems

\* The (latitude, longitude) values an entry carries under each convention:
\* latitude/longitude, lat/lng, geolocation.coordinates = [lng, lat].
Conventions(r) ==
    << <<r.latitude, r.longitude>>,
       <<r.lat, r.lng>>,
       <<At(CoordsOf(r), 2), At(CoordsOf(r), 1)>> >>

\* Both values are finite numbers or strings that parse to one.
ParseablePair(pr) == Present(toNumber(pr[1])) /\ Present(toNumber(pr[2]))

FirstParseable(r) ==
    LET cv == Conventions(r)
    IN  CHOOSE i \in 1..Len(cv) :
            /\ ParseablePair(cv[i])
            /\ \A j \in 1..(i - 1) : ~ParseablePair(cv[j])

\* C17: an entry that carries a parseable pair under some convention gets
\* the latitude and longitude of the first such convention.
C17_FirstParseablePair ==
    (/\ normOut.state = "returned"
     /\ \E i \in 1..Len(Conventions(raw)) : ParseablePair(Conventions(raw)[i]))
        => LET pr == Conventions(raw)[FirstParseable(raw)]
           IN  /\ normOut.rec.lat = toNumber(pr[1])
               /\ normOut.rec.lng = toNumber(pr[2])

\* The nested convention alone is read, numeric strings included: it holds
\* for the entries that carry no flat coordinate field.
C17_NestedOnly ==
    (/\ normOut.state = "returned"
     /\ \A i \in 1..2 : Conventions(raw)[i] = <<CUndef, CUndef>>
     /\ ParseablePair(Conventions(raw)[3]))
        => /\ normOut.rec.lat = toNumber(Conventions(raw)[3][1])
           /\ normOut.rec.lng = toNumber(Conventions(raw)[3][2])

\* The steps of the runs when every successful response carries the
\* documented body.
NetworkLive ==
    \E k \in 1..Len(fetches) :
        \/ FetchRejects(k)
        \/ \E st \in HttpStatuses : ResponseNotOk(k, st)
        \/ ResponseOk(k)
        \/ JsonRejects(k)
        \/ JsonParsed(k, ScenarioPage)

NextLive == Handlers \/ NetworkLive

\* Every request completes: the promise of fetch and the promise of
\* res.json() settle, so a run that awaits one of them takes its next step.
SpecLive == Init /\ [][NextLive]_vars /\ WF_vars(NetworkLive)

-----------------------------------------------------------------------------
(* The component against a server that paginates a fixed record set *)

\* Records the server holds for a search text
Total(q) == IF q = "" THEN 45 ELSE 1

CeilDiv(a, b) == (a + b - 1) \div b

\* The server's page p of size sz for the search text q: totalPages is
\* ceil(total / size); one record stands for the records of a page within
\* the record set, and a page past the end is empty.
ServerPage(q, p, sz) ==
    Envelope(Arr(IF p * sz < Total(q) THEN <<RecPollos>> ELSE <<>>),
             Num(CeilDiv(Total(q), sz)), Num(p), NUndef, Num(sz), Num(Total(q)))

InitPaging ==
    /\ query = ""
    /\ page = 0
    /\ size = InitialSize
    /\ loading = TRUE
    /\ error = ""
    /\ pageData = InitialPageData
    /\ seriesFilter = ""
    /\ accessFilter = ""
    /\ fetches = <<NewFetch(InitialSize)>>
    /\ latest = "live"
    /\ pageSrc = "none"
    /\ lastEvent = [kind |-> "mount", run |-> "started"]
    /\ wire = Sent(Params("", 0, InitialSize))
    /\ raw = RawEmpty
    /\ normOut = Pending
    /\ trail = "steady"

\* The server answers every request that reaches it with 200 and the page
\* asked for; a request may still fail on the network. A run that is not
\* cancelled was started by the last change of params, so the request it
\* sent is the one of the current query state; the body of a cancelled run
\* is dropped unread.
NetworkPaging ==
    \E k \in 1..Len(fetches) :
        \/ FetchRejects(k)
        \/ ResponseOk(k)
        \/ JsonParsed(k, ServerPage(query, page, fetches[k].sz))

NextPaging == Handlers \/ NetworkPaging

SpecPaging == InitPaging /\ [][NextPaging]_vars

-----------------------------------------------------------------------------
(* Claims on the option lists *)

Range(xs) == {xs[i] : i \in 1..Len(xs)}

\* No empty value, and ascending without repetition
SortedOptions(xs) ==
    /\ \A i \in 1..Len(xs) : xs[i] # ""
    /\ \A i, j \in 1..Len(xs) : i < j => Rank(xs[i]) < Rank(xs[j])

\* The non-empty access values of the records of arr
AccessValuesOf(arr) ==
    {arr[i].access.s : i \in {j \in 1..Len(arr) : arr[j].access.t = "string"}} \ {""}

\* The series values of the records of arr
SeriesValuesOf(arr) == UNION {Range(arr[i].series) : i \in 1..Len(arr)}

\* C21: the access option list and the series option list each hold every
\* distinct value observed once, no empty value, in ascending order.
C21_OptionListsSorted ==
    LET ao == accessOptions
        as == allSeries
    IN  /\ Range(ao) = AccessValuesOf(visible)
        /\ SortedOptions(ao)
        /\ Range(as) = SeriesValuesOf(locations) \ {""}
        /\ SortedOptions(as)

\* The access option list alone is as claimed.
C21_AccessOptionsSorted ==
    LET ao == accessOptions
    IN  Range(ao) = AccessValuesOf(visible) /\ SortedOptions(ao)

\* C22: the access options are the access values of the records that pass
\* the series and access filters, and the series options are the series
\* values of all records of the page, whatever the filters are.
C22_OptionPopulations ==
    LET locs == locations
        passing == {i \in PassingIndexes : locs[i].access.t = "string"}
    IN  /\ Range(accessOptions) = {locs[i].access.s : i \in passing} \ {""}
        /\ Range(allSeries) = SeriesValuesOf(locs)

\* A filter is set that removed access values from the access options, and
\* the series options still offer a value that no visible record has.
C22_Witness ==
    /\ lastEvent.kind = "facet"
    /\ seriesFilter # ""
    /\ Range(accessOptions) # AccessValuesOf(locations)
    /\ Range(accessOptions) # {}
    /\ Range(allSeries) # SeriesValuesOf(visible)

\* C27: while the access filter is set, the access option list is the list
\* of that value alone, or empty.
C27_AccessOptionsCollapse ==
    accessFilter # "" => accessOptions \in {<<accessFilter>>, <<>>}

\* The access filter is set on a page that has another access value, which
\* is not offered.
C27_Witness ==
    /\ accessFilter = "restricted"
    /\ accessOptions = <<"restricted">>
    /\ "public_business" \in AccessValuesOf(locations)

-----------------------------------------------------------------------------
(* Claims on the derived episode tags *)

\* The episodes of the scene sub-records of r, in scene order, as strings
RECURSIVE EpisodeStrings(_)
EpisodeStrings(scs) ==
    IF scs = <<>> THEN <<>>
    ELSE LET s == Head(scs)
             own == IF s.t = "object" /\ s.episodes.t = "array"
                    THEN [i \in 1..Len(s.episodes.elems) |->
                             IF s.episodes.elems[i].t = "number"
                             THEN ToString(s.episodes.elems[i].n)
                             ELSE s.episodes.elems[i].s]
                    ELSE <<>>
         IN  own \o EpisodeStrings(Tail(scs))

ScenesOf(r) == IF r.t = "object" /\ r.scenes.t = "array" THEN r.scenes.elems ELSE <<>>

\* Position of the first occurrence of x in xs
FirstAt(xs, x) == CHOOSE i \in 1..Len(xs) : xs[i] = x /\ \A j \in 1..(i - 1) : xs[j] # x

\* tags holds each string of flat once, in the order of first occurrence.
FirstOccurrences(tags, flat) ==
    /\ Range(tags) = Range(flat)
    /\ \A i, j \in 1..Len(tags) : i < j => FirstAt(flat, tags[i]) < FirstAt(flat, tags[j])

\* C23: the derived episode tags of a record are the episodes of its scene
\* sub-records, flattened in scene order, as strings, each once in the order
\* of first occurrence; without scenes or episodes the list is empty.
C23_EpisodeTags ==
    (raw.t = "object" /\ normOut.state # "pending")
        => /\ normOut.state = "returned"
           /\ FirstOccurrences(normOut.rec.episodes, EpisodeStrings(ScenesOf(raw)))

\* Whenever mapLocation returns, the tags are as described.
C23_WhenReturned ==
    (raw.t = "object" /\ normOut.state = "returned")
        => FirstOccurrences(normOut.rec.episodes, EpisodeStrings(ScenesOf(raw)))

-----------------------------------------------------------------------------
(* Claims on the handlers' frame, the page index and the start of a run *)

\* C26: a facet handler taken at page index 0 starts no run and leaves the
\* page, the loading flag and the error as they are.
C26_FacetChangeIsLocal ==
    [][(lastEvent'.kind = "facet" /\ page = 0)
        => UNCHANGED <<fetches, pageData, loading, error>>]_vars

\* The access filter was set at page index 0 while a request was in flight:
\* the request is still the only one, not cancelled.
C26_Witness ==
    /\ lastEvent = [kind |-> "facet", run |-> "none"]
    /\ accessFilter # ""
    /\ loading
    /\ Len(fetches) = 1
    /\ ~fetches[1].cancelled

\* C28: the page index is an integer >= 0 in every state, and Next is taken
\* only when nothing is loading and page + 1 < totalPages of the page on
\* display. Stated on the first variant, whose page holds JSON values.
C28_PageIndexInRange ==
    [][/\ page' \in Nat
       /\ (lastEvent'.kind = "nav" /\ page' > page)
              => /\ ~loading
                 /\ pageData.totalPages.t = "number"
                 /\ page + 1 < pageData.totalPages.n
                 /\ page' = page + 1]_vars

\* The same on the second variant and the themed one, with Previous, which
\* takes the page index one down and never below 0: it holds there.
C28_SecondVariant ==
    [][/\ page' \in Nat
       /\ (lastEvent'.kind = "nav" /\ page' > page)
              => (~loading /\ page + 1 < pageData.totalPages /\ page' = page + 1)
       /\ (lastEvent'.kind = "nav" /\ page' <= page)
              => page' = Max(0, page - 1)]_vars

\* Next was taken twice, up to the last page of the page on display.
C28_NextTakenTwice ==
    /\ lastEvent = [kind |-> "nav", run |-> "started"]
    /\ page = 2
    /\ pageData.totalPages = 3

\* C29: once a run has started and until its outcome is known, loading is
\* true and no error is stored: the error of an earlier run is not shown.
C29_NoEarlierErrorShown == latest = "live" => (loading /\ error = "")

\* The step that starts a run sets loading and clears the error.
C29_StartClears ==
    [][Len(fetches') > Len(fetches) => (loading' /\ error' = "")]_vars

-----------------------------------------------------------------------------
(* Claims on pagination against a consistent server *)

\* Nothing is in flight and the most recently started run committed its page.
Settled == Len(fetches) = 0 /\ latest = "committed"

\* The run that is not cancelled sent the request of the current query state.
LatestRequestIsCurrent ==
    \A k \in 1..Len(fetches) :
        ~fetches[k].cancelled => (wire.request = params /\ fetches[k].sz = size)

-----------------------------------------------------------------------------
(* Claims on termination *)

\* C25: if from some point on the user changes nothing, so that every step
\* is a step of a run, then from some point on loading is false for good.
C25_LoadingEnds ==
    <>[][lastEvent'.kind \notin HandlerKinds]_vars => <>[](~loading)

\* A superseded run was ignored last, nothing is in flight and the view is
\* not loading.
C25_Witness ==
    /\ lastEvent = [kind |-> "dropped", run |-> "stale"]
    /\ Len(fetches) = 0
    /\ ~loading

====
